---- MODULE Spec2Model ----
(***************************************************************************)
(* Model of pkg/controller/bastion/actuator_reconcile.go: the Reconcile    *)
(* pass of the alicloud bastion actuator, the provider (ECS/VPC) state it  *)
(* reads and writes, and the pure helpers it uses (rule equality, rule     *)
(* symmetric difference, endpoint readiness).                              *)
(***************************************************************************)
EXTENDS Integers, Sequences, FiniteSets, TLC

(***************************************************************************)
(* Bounds of the model.                                                    *)
(***************************************************************************)
MaxRules == 2
MaxCidrs == 2
MaxPasses == 3
MaxEnsureCalls == 2
MaxListLen == 3
MaxEdits == 1
MaxFailingPasses == 1

(***************************************************************************)
(* Program constants.                                                      *)
(***************************************************************************)
MaxCores == 2
InstanceReadyRequeueAfter == 10
EndpointsRequeueAfter == 5
InstanceReadySleep == 10

(***************************************************************************)
(* Names and values the pass receives through Options and the cluster.     *)
(***************************************************************************)
BastionInstanceName == "bastion-1"
SecurityGroupName == "sg-bastion-1"
ShootSecurityGroupName == "sg-shoot"
OtherName == "other"
ShootSecurityGroupId == 100
PrivateIpAddress == "10.0.0.5"
PublicIpAddress == "198.51.100.9"
SSHPortRange == "22/22"

(***************************************************************************)
(* Security rules.  A wanted ingress rule is an                            *)
(* ecs.AuthorizeSecurityGroupRequest, a wanted egress rule an              *)
(* ecs.AuthorizeSecurityGroupEgressRequest, an observed rule an            *)
(* ecs.Permission.  Only the fields the pass reads or writes are kept.     *)
(***************************************************************************)
IngressRequest(sg, desc, proto, port, src, src6) ==
    [SecurityGroupId |-> sg, Description |-> desc, IpProtocol |-> proto,
     PortRange |-> port, SourceCidrIp |-> src, Ipv6SourceCidrIp |-> src6]

EgressRequest(sg, desc, proto, port, src, dstCidr, dstGroup, policy) ==
    [SecurityGroupId |-> sg, Description |-> desc, IpProtocol |-> proto,
     PortRange |-> port, SourceCidrIp |-> src, DestCidrIp |-> dstCidr,
     DestGroupId |-> dstGroup, Policy |-> policy]

Permission(dir, sg, desc, proto, port, src, src6, dstCidr, dstGroup, policy) ==
    [Direction |-> dir, SecurityGroupId |-> sg, Description |-> desc,
     IpProtocol |-> proto, PortRange |-> port, SourceCidrIp |-> src,
     Ipv6SourceCidrIp |-> src6, DestCidrIp |-> dstCidr,
     DestGroupId |-> dstGroup, Policy |-> policy]

\* ingressRuleEqual: description, protocol, port range and both source CIDRs.
ingressRuleEqual(a, b) ==
    /\ a.Description = b.Description
    /\ a.IpProtocol = b.IpProtocol
    /\ a.PortRange = b.PortRange
    /\ a.SourceCidrIp = b.SourceCidrIp
    /\ a.Ipv6SourceCidrIp = b.Ipv6SourceCidrIp

\* egressRuleEqual: description, protocol, port range and source CIDR.
egressRuleEqual(a, b) ==
    /\ a.Description = b.Description
    /\ a.IpProtocol = b.IpProtocol
    /\ a.PortRange = b.PortRange
    /\ a.SourceCidrIp = b.SourceCidrIp

\* The equality the symmetric difference of a rule family uses.
ruleEqual(family, a, b) ==
    IF family = "ingress" THEN ingressRuleEqual(a, b) ELSE egressRuleEqual(a, b)

\* The inner loop of the first outer loop: does a wanted rule equal cur?
RECURSIVE FoundInWanted(_, _, _, _)
FoundInWanted(family, wanted, cur, i) ==
    IF i > Len(wanted) THEN FALSE
    ELSE IF ruleEqual(family, wanted[i], cur) THEN TRUE
    ELSE FoundInWanted(family, wanted, cur, i + 1)

\* The inner loop of the second outer loop: does a current rule equal w?
RECURSIVE FoundInCurrent(_, _, _, _)
FoundInCurrent(family, w, current, i) ==
    IF i > Len(current) THEN FALSE
    ELSE IF ruleEqual(family, w, current[i]) THEN TRUE
    ELSE FoundInCurrent(family, w, current, i + 1)

\* First outer loop: the current rules no wanted rule equals, in order.
RECURSIVE RulesToDelete(_, _, _, _)
RulesToDelete(family, wanted, current, i) ==
    IF i > Len(current) THEN << >>
    ELSE (IF FoundInWanted(family, wanted, current[i], 1) THEN << >>
          ELSE << current[i] >>)
         \o RulesToDelete(family, wanted, current, i + 1)

\* Second outer loop: the wanted rules no current rule equals, in order.
RECURSIVE RulesToAdd(_, _, _, _)
RulesToAdd(family, wanted, current, i) ==
    IF i > Len(wanted) THEN << >>
    ELSE (IF FoundInCurrent(family, wanted[i], current, 1) THEN << >>
          ELSE << wanted[i] >>)
         \o RulesToAdd(family, wanted, current, i + 1)

\* ingressRulesSymmetricDifference adding every wanted rule, found or not.
ingressRulesSymmetricDifference_addAll(wantedIngressRules, currentRules) ==
    [toAdd |-> wantedIngressRules,
     toDelete |-> RulesToDelete("ingress", wantedIngressRules, currentRules, 1)]

ingressRulesSymmetricDifference(wantedIngressRules, currentRules) ==
    [toAdd |-> RulesToAdd("ingress", wantedIngressRules, currentRules, 1),
     toDelete |-> RulesToDelete("ingress", wantedIngressRules, currentRules, 1)]

\* egressRulesSymmetricDifference with nothing to add.
egressRulesSymmetricDifference_nothingToAdd(wantedEgressRules, currentRules) ==
    [toAdd |-> << >>,
     toDelete |-> RulesToDelete("egress", wantedEgressRules, currentRules, 1)]

egressRulesSymmetricDifference(wantedEgressRules, currentRules) ==
    [toAdd |-> RulesToAdd("egress", wantedEgressRules, currentRules, 1),
     toDelete |-> RulesToDelete("egress", wantedEgressRules, currentRules, 1)]


(***************************************************************************)
(* Endpoint model.  A *corev1.LoadBalancerIngress is a record whose field  *)
(* isNil tells a nil pointer; an optional string argument likewise.        *)
(***************************************************************************)
NilIngress == [isNil |-> TRUE, Hostname |-> "", IP |-> ""]
NilString == [isNil |-> TRUE, val |-> ""]
StringPtr(s) == [isNil |-> FALSE, val |-> s]

IngressReady(ingress) ==
    ~ingress.isNil /\ (ingress.Hostname # "" \/ ingress.IP # "")

addressToIngress(dnsName, ipAddress) ==
    IF ~ipAddress.isNil \/ ~dnsName.isNil
    THEN [isNil |-> FALSE,
          Hostname |-> IF ~dnsName.isNil THEN dnsName.val ELSE "",
          IP |-> IF ~ipAddress.isNil THEN ipAddress.val ELSE ""]
    ELSE NilIngress

NilEndpoints == [isNil |-> TRUE, private |-> NilIngress, public |-> NilIngress]

\* Ready asking for one populated side only.
Ready_eitherSide(be) ==
    ~be.isNil /\ (IngressReady(be.private) \/ IngressReady(be.public))

Ready(be) ==
    ~be.isNil /\ IngressReady(be.private) /\ IngressReady(be.public)

(***************************************************************************)
(* The lookup-first test of the two ensure operations: only element 0 of   *)
(* the response list is inspected.                                         *)
(***************************************************************************)
securityGroupFound(list, securityGroupName) ==
    Len(list) > 0 /\ list[1].SecurityGroupName = securityGroupName

\* computeInstanceFound answering found for an element 0 of another name.
computeInstanceFound_otherName(list, instanceName) ==
    Len(list) > 0 /\ list[1].InstanceName # instanceName

computeInstanceFound(list, instanceName) ==
    Len(list) > 0 /\ list[1].InstanceName = instanceName

(***************************************************************************)
(* State.                                                                  *)
(***************************************************************************)
VARIABLES
    \* provider (ECS) state
    secGroups,        \* sequence of [SecurityGroupName, SecurityGroupId]
    instances,        \* sequence of instance records
    permissions,      \* set of Permission records (rules of all groups)
    nextId,           \* next provider-assigned id
    edits,            \* rules edited out-of-band so far
    \* the Bastion resource and the cluster
    allowlist,        \* bastion.Spec.Ingress, a sequence of CIDRs
    machineTypes,     \* cluster.CloudProfile.Spec.MachineTypes (names)
    bastionStatus,    \* the persisted bastion.Status.Ingress
    \* the running pass
    pc,               \* the call the pass is about to make
    passNo,           \* number of passes started
    outcome,          \* what the pass returned
    calls,            \* provider calls of the pass, in order, with results
    history,          \* outcomes of the earlier passes (end-to-end scenario)
    slept,            \* seconds the pass spent in time.Sleep
    patched,          \* status patches the pass issued
    loc,              \* local variables of Reconcile and its callees
    \* application of the rule symmetric difference to drawn inputs
    dKind, dWanted, dCurrent, dAdd, dDel, dApplied,
    \* repeated application of an ensure operation to drawn lookup lists
    eKind, eResources, eCallNo, eResponse, eCreates, eIds,
    \* application of Ready to endpoints built from drawn addresses
    bInput, bEndpoints, bReady, bApplied

providerVars == << secGroups, instances, permissions, nextId, edits >>
inputVars == << allowlist, machineTypes >>
passVars == << pc, passNo, outcome, history, calls, slept, patched, loc >>
diffVars == << dKind, dWanted, dCurrent, dAdd, dDel, dApplied >>
ensureVars == << eKind, eResources, eCallNo, eResponse, eCreates, eIds >>
endpointVars == << bInput, bEndpoints, bReady, bApplied >>
vars == << providerVars, inputVars, bastionStatus, passVars, diffVars,
           ensureVars, endpointVars >>

(***************************************************************************)
(* Outcomes of a pass.  A *ctrlerror.RequeueAfterError is the retry        *)
(* signal; any other non-nil error is an error; a Go panic is kept apart.  *)
(***************************************************************************)
NoOutcome == [kind |-> "none", after |-> 0, cause |-> ""]
Success == [kind |-> "success", after |-> 0, cause |-> ""]
ErrorOutcome(msg) == [kind |-> "error", after |-> 0, cause |-> msg]
RequeueAfterError(seconds, msg) ==
    [kind |-> "requeue", after |-> seconds, cause |-> msg]
PanicOutcome == [kind |-> "panic", after |-> 0, cause |-> "runtime panic"]

ProviderError == "provider error"

InitLoc ==
    [cores |-> 1, instanceTypeId |-> "", securityGroupID |-> 0,
     instanceID |-> 0, rulesToAdd |-> << >>, rulesToDelete |-> << >>,
     shootSecurityGroupId |-> 0, privateIP |-> "", publicIP |-> "",
     endpoints |-> NilEndpoints, statusIngress |-> NilIngress]

(***************************************************************************)
(* Inputs of the model.                                                    *)
(***************************************************************************)
CidrList ==
    << [cidr |-> "203.0.113.0/24", v6 |-> FALSE],
       [cidr |-> "2001:db8::/32", v6 |-> TRUE],
       [cidr |-> "192.0.2.0/24", v6 |-> FALSE],
       [cidr |-> "198.18.0.0/15", v6 |-> FALSE] >>

Min(a, b) == IF a < b THEN a ELSE b

AllowLists == { SubSeq(CidrList, 1, n) : n \in 0..Min(MaxCidrs, Len(CidrList)) }

MachineTypes == << "m.small", "m.large" >>

ShootSecurityGroup ==
    [SecurityGroupName |-> ShootSecurityGroupName,
     SecurityGroupId |-> ShootSecurityGroupId]

\* The shoot's security group, the allowlist and the machine types a pass
\* starts with: every allowlist with a provisioned shoot and a cloud profile
\* with machine types, one case of a cloud profile without machine types and
\* one of a shoot without security group.
Configurations ==
    { << << ShootSecurityGroup >>, a, MachineTypes >> : a \in AllowLists } \cup
    { << << ShootSecurityGroup >>, SubSeq(CidrList, 1, 1), << >> >>,
      << << >>, SubSeq(CidrList, 1, 1), MachineTypes >> }

RECURSIVE SetToSeq(_)
SetToSeq(S) ==
    IF S = {} THEN << >>
    ELSE LET x == CHOOSE y \in S : TRUE
         IN << x >> \o SetToSeq(S \ {x})

(***************************************************************************)
(* Provider responses.                                                     *)
(***************************************************************************)
\* GetSecurityGroup(name): an error, a nil response, or the groups so named.
GetSecurityGroup(name) ==
    { [kind |-> "err", list |-> << >>], [kind |-> "nil", list |-> << >>],
      [kind |-> "ok",
       list |-> SelectSeq(secGroups, LAMBDA g : g.SecurityGroupName = name)] }

\* GetInstances(name): an error, a nil response, or the instances so named.
GetInstances(name) ==
    { [kind |-> "err", list |-> << >>], [kind |-> "nil", list |-> << >>],
      [kind |-> "ok",
       list |-> SelectSeq(instances, LAMBDA i : i.InstanceName = name)] }

\* DescribeSecurityGroupAttribute(group, direction).
DescribeSecurityGroupAttribute(sg, dir) ==
    { [kind |-> "err", list |-> << >>],
      [kind |-> "ok",
       list |-> SetToSeq({ p \in permissions :
                             p.SecurityGroupId = sg /\ p.Direction = dir })] }

\* GetInstanceType(cores, zone): the nested availability lists.
SupportedResource(status, value) ==
    << [AvailableResource |->
          << [SupportedResource |->
                << [Status |-> status, Value |-> value] >>] >>] >>

CoreTypeValue(c) == IF c = 1 THEN "ecs.1core" ELSE "ecs.ncore"

GetInstanceType(c) ==
    { [kind |-> "err", AvailableZone |-> << >>],
      [kind |-> "nil", AvailableZone |-> << >>],
      [kind |-> "ok", AvailableZone |-> << >>],
      [kind |-> "ok", AvailableZone |-> << [AvailableResource |-> << >>] >>],
      [kind |-> "ok", AvailableZone |->
          << [AvailableResource |-> << [SupportedResource |-> << >>] >>] >>],
      [kind |-> "ok", AvailableZone |-> SupportedResource("SoldOut", CoreTypeValue(c))],
      [kind |-> "ok", AvailableZone |-> SupportedResource("Available", CoreTypeValue(c))] }

\* The same responses and one whose Available entry carries no value.
GetInstanceTypeOrUnnamed(c) ==
    GetInstanceType(c) \cup
        { [kind |-> "ok", AvailableZone |-> SupportedResource("Available", "")] }

(***************************************************************************)
(* Wanted rules (ingressPermissions, ingressAllowSSH,                      *)
(* egressAllowSSHToWorker, egressDenyAll).                                 *)
(***************************************************************************)
ingressPermissions(ingress) == ingress

ingressAllowSSH(securityGroupId, perm) ==
    IngressRequest(securityGroupId, "SSH access for Bastion", "tcp",
                   SSHPortRange,
                   IF perm.v6 THEN "" ELSE perm.cidr,
                   IF perm.v6 THEN perm.cidr ELSE "")

egressAllowSSHToWorker(sourceCidrIp, securityGroupId, destSecurityGroupId) ==
    EgressRequest(securityGroupId, "Allow Bastion egress to Shoot workers",
                  "tcp", SSHPortRange, sourceCidrIp, "",
                  destSecurityGroupId, "accept")

egressDenyAll(securityGroupId) ==
    EgressRequest(securityGroupId, "Bastion egress deny", "all", "-1/-1",
                  "", "0.0.0.0/0", 0, "drop")

wantedIngressRules(securityGroupId) ==
    LET perms == ingressPermissions(allowlist)
    IN [i \in 1..Len(perms) |-> ingressAllowSSH(securityGroupId, perms[i])]

wantedEgressRules(ip, securityGroupId, shootId) ==
    << egressAllowSSHToWorker(ip, securityGroupId, shootId),
       egressDenyAll(securityGroupId) >>

\* What the provider stores for an authorized rule.
IngressPermission(r) ==
    Permission("ingress", r.SecurityGroupId, r.Description, r.IpProtocol,
               r.PortRange, r.SourceCidrIp, r.Ipv6SourceCidrIp, "", 0, "accept")

EgressPermission(r) ==
    Permission("egress", r.SecurityGroupId, r.Description, r.IpProtocol,
               r.PortRange, r.SourceCidrIp, "", r.DestCidrIp, r.DestGroupId,
               r.Policy)


(***************************************************************************)
(* The Reconcile pass, one action per provider call.                       *)
(***************************************************************************)
Return(o) == pc' = "done" /\ outcome' = o

\* The status of the instance a lookup shows to the code (element 0).
seenStatus(r) ==
    IF r.kind # "ok" \/ Len(r.list) = 0 THEN "none" ELSE r.list[1].Status

\* A call of the pass: where it was made, the operation, how the code took
\* the response (res), what the response showed (seen), and for an instance
\* type probe the core count asked for (arg) and the value reported (val).
LogProbe(op, res, seen, arg, val) ==
    calls' = Append(calls, [site |-> pc, op |-> op, res |-> res, seen |-> seen,
                            arg |-> arg, val |-> val])

LogSeen(op, res, seen) == LogProbe(op, res, seen, 0, "")

Log(op, res) == LogSeen(op, res, "")

PassFrame == UNCHANGED << inputVars, diffVars, ensureVars, endpointVars,
                          passNo, history >>

\* The outer control loop invokes Reconcile; passes never overlap.
InvokePass(n) ==
    /\ pc \in {"idle", "done"}
    /\ passNo' = n
    /\ pc' = "Prepare"
    /\ outcome' = NoOutcome
    /\ calls' = << >>
    /\ slept' = 0
    /\ patched' = 0
    /\ loc' = [InitLoc EXCEPT !.statusIngress = bastionStatus]
    /\ UNCHANGED << providerVars, inputVars, bastionStatus, diffVars, ensureVars,
                    endpointVars >>

BeginPass == passNo < MaxPasses /\ InvokePass(passNo + 1)

StartPass == BeginPass /\ history' = history

\* The same, keeping the outcome of the pass that returned before.
StartPassRecorded ==
    /\ BeginPass
    /\ history' = IF pc = "done"
                   THEN Append(history, [kind |-> outcome.kind, after |-> outcome.after])
                   ELSE history

\* DetermineOptions, credentials, client construction, getImageID.
Prepare ==
    /\ pc = "Prepare"
    /\ \E ok \in BOOLEAN :
         IF ok THEN pc' = "GetVPCInfoByName" /\ outcome' = outcome
         ELSE Return(ErrorOutcome("options"))
    /\ UNCHANGED << providerVars, bastionStatus, calls, slept, patched, loc >>
    /\ PassFrame

GetVPCInfoByName ==
    /\ pc = "GetVPCInfoByName"
    /\ \E r \in {"ok", "err"} :
         /\ Log("GetVPCInfoByName", r)
         /\ IF r = "err" THEN Return(ErrorOutcome(ProviderError))
            ELSE pc' = "GetVSwitchesInfoByID" /\ outcome' = outcome
    /\ UNCHANGED << providerVars, bastionStatus, slept, patched, loc >>
    /\ PassFrame

GetVSwitchesInfoByID ==
    /\ pc = "GetVSwitchesInfoByID"
    /\ \E r \in {"ok", "err"} :
         /\ Log("GetVSwitchesInfoByID", r)
         /\ IF r = "err" THEN Return(ErrorOutcome(ProviderError))
            ELSE pc' = "GetInstanceType" /\ outcome' = outcome
    /\ UNCHANGED << providerVars, bastionStatus, slept, patched, loc >>
    /\ PassFrame

\* instanceTypeSkipped without the comparison of the status.
instanceTypeSkipped_statusIgnored(r) ==
    \/ r.kind = "nil"
    \/ Len(r.AvailableZone) = 0
    \/ Len(r.AvailableZone[1].AvailableResource) = 0
    \/ Len(r.AvailableZone[1].AvailableResource[1].SupportedResource) = 0

\* The condition of the 'continue' in the probing loop.
instanceTypeSkipped(r) ==
    \/ r.kind = "nil"
    \/ Len(r.AvailableZone) = 0
    \/ Len(r.AvailableZone[1].AvailableResource) = 0
    \/ Len(r.AvailableZone[1].AvailableResource[1].SupportedResource) = 0
    \/ r.AvailableZone[1].AvailableResource[1].SupportedResource[1].Status
         # "Available"

instanceTypeValue(r) ==
    r.AvailableZone[1].AvailableResource[1].SupportedResource[1].Value

instanceTypeResult(r) ==
    IF r.kind = "err" THEN "err"
    ELSE IF instanceTypeSkipped(r) THEN "skipped" ELSE "Available"

\* What a response of GetInstanceType shows: an error, a nil response, an
\* empty list at one of the three levels, or the status of the first entry.
probeShape(r) ==
    IF r.kind # "ok" THEN r.kind
    ELSE IF Len(r.AvailableZone) = 0 THEN "empty"
    ELSE IF Len(r.AvailableZone[1].AvailableResource) = 0 THEN "empty"
    ELSE IF Len(r.AvailableZone[1].AvailableResource[1].SupportedResource) = 0
    THEN "empty"
    ELSE r.AvailableZone[1].AvailableResource[1].SupportedResource[1].Status

\* The value of the first entry, if the response has one.
probeValue(r) ==
    IF probeShape(r) \in {"err", "nil", "empty"} THEN ""
    ELSE instanceTypeValue(r)

\* No instance type found and no machine type in the cloud profile.
fallbackFails(id) == id = "" /\ Len(machineTypes) = 0

\* fallbackInstanceType taking the last machine type of the cloud profile.
fallbackInstanceType_last(id) ==
    IF id = "" THEN machineTypes[Len(machineTypes)] ELSE id

\* The fallback to the first machine type of the cloud profile.
fallbackInstanceType(id) == IF id = "" THEN machineTypes[1] ELSE id

\* What the probing loop does with the response r of one probe: return the
\* error, go on with the next core count, or leave the loop and apply the
\* fallback.
instanceTypeProbed(r) ==
    IF r.kind = "err"
    THEN Return(ErrorOutcome(ProviderError)) /\ loc' = loc
    ELSE IF instanceTypeSkipped(r) /\ loc.cores < MaxCores
    THEN /\ loc' = [loc EXCEPT !.cores = loc.cores + 1]
         /\ UNCHANGED << pc, outcome >>
    ELSE LET id == IF instanceTypeSkipped(r) THEN ""
                   ELSE instanceTypeValue(r)
         IN IF fallbackFails(id)
            THEN /\ Return(ErrorOutcome("machine types missing from cloud profile"))
                 /\ loc' = loc
            ELSE /\ loc' = [loc EXCEPT !.instanceTypeId = fallbackInstanceType(id)]
                 /\ pc' = "ensureSecurityGroup"
                 /\ outcome' = outcome

\* One probe of the loop, logged by its result.
GetInstanceTypeStep ==
    /\ pc = "GetInstanceType"
    /\ \E r \in GetInstanceType(loc.cores) :
         /\ Log("GetInstanceType", instanceTypeResult(r))
         /\ instanceTypeProbed(r)
    /\ UNCHANGED << providerVars, bastionStatus, slept, patched >>
    /\ PassFrame

\* The same probe, logged with the core count asked for and with what the
\* response showed.
GetInstanceTypeProbe ==
    /\ pc = "GetInstanceType"
    /\ \E r \in GetInstanceTypeOrUnnamed(loc.cores) :
         /\ LogProbe("GetInstanceType", instanceTypeResult(r), probeShape(r),
                     loc.cores, probeValue(r))
         /\ instanceTypeProbed(r)
    /\ UNCHANGED << providerVars, bastionStatus, slept, patched >>
    /\ PassFrame

\* ensureSecurityGroup, the lookup.
ensureSecurityGroup ==
    /\ pc = "ensureSecurityGroup"
    /\ \E r \in GetSecurityGroup(SecurityGroupName) :
         /\ Log("GetSecurityGroup", r.kind)
         /\ IF r.kind = "err"
            THEN Return(ErrorOutcome(ProviderError)) /\ loc' = loc
            ELSE IF r.kind = "nil"
            THEN Return(PanicOutcome) /\ loc' = loc
            ELSE IF securityGroupFound(r.list, SecurityGroupName)
            THEN /\ loc' = [loc EXCEPT !.securityGroupID = r.list[1].SecurityGroupId]
                 /\ pc' = "ensureComputeInstance"
                 /\ outcome' = outcome
            ELSE /\ pc' = "CreateSecurityGroups"
                 /\ UNCHANGED << loc, outcome >>
    /\ UNCHANGED << providerVars, bastionStatus, slept, patched >>
    /\ PassFrame

\* ensureSecurityGroup, the creation.
CreateSecurityGroups ==
    /\ pc = "CreateSecurityGroups"
    /\ \E r \in {"ok", "err"} :
         /\ Log("CreateSecurityGroups", r)
         /\ IF r = "ok"
            THEN /\ secGroups' = Append(secGroups,
                        [SecurityGroupName |-> SecurityGroupName,
                         SecurityGroupId |-> nextId])
                 /\ nextId' = nextId + 1
                 /\ loc' = [loc EXCEPT !.securityGroupID = nextId]
                 /\ pc' = "ensureComputeInstance"
                 /\ outcome' = outcome
            ELSE /\ Return(IF r = "err" THEN ErrorOutcome(ProviderError)
                           ELSE PanicOutcome)
                 /\ UNCHANGED << secGroups, nextId, loc >>
    /\ UNCHANGED << instances, permissions, edits, bastionStatus, slept, patched >>
    /\ PassFrame

\* ensureComputeInstance, the lookup.
ensureComputeInstance ==
    /\ pc = "ensureComputeInstance"
    /\ \E r \in GetInstances(BastionInstanceName) :
         /\ LogSeen("GetInstances", r.kind, seenStatus(r))
         /\ IF r.kind = "err"
            THEN Return(ErrorOutcome(ProviderError)) /\ loc' = loc
            ELSE IF r.kind = "nil"
            THEN Return(PanicOutcome) /\ loc' = loc
            ELSE IF computeInstanceFound(r.list, BastionInstanceName)
            THEN /\ loc' = [loc EXCEPT !.instanceID = r.list[1].InstanceId]
                 /\ pc' = "isInstanceReady"
                 /\ outcome' = outcome
            ELSE /\ pc' = "CreateInstances"
                 /\ UNCHANGED << loc, outcome >>
    /\ UNCHANGED << providerVars, bastionStatus, slept, patched >>
    /\ PassFrame

\* ensureComputeInstance, the creation.  "noid" is a response whose
\* InstanceIdSet is empty.  The new instance is Pending and has no private
\* IP yet.
CreateInstances ==
    /\ pc = "CreateInstances"
    /\ \E r \in {"ok", "err", "noid"} :
         /\ LogSeen("CreateInstances", r, loc.instanceTypeId)
         /\ IF r = "ok"
            THEN /\ instances' = Append(instances,
                        [InstanceName |-> BastionInstanceName,
                         InstanceId |-> nextId,
                         Status |-> "Pending",
                         IpAddress |-> << >>])
                 /\ nextId' = nextId + 1
                 /\ loc' = [loc EXCEPT !.instanceID = nextId]
                 /\ pc' = "isInstanceReady"
                 /\ outcome' = outcome
            ELSE /\ Return(IF r = "err" THEN ErrorOutcome(ProviderError)
                           ELSE PanicOutcome)
                 /\ UNCHANGED << instances, nextId, loc >>
    /\ UNCHANGED << secGroups, permissions, edits, bastionStatus, slept, patched >>
    /\ PassFrame

\* isInstanceReady reporting a missing instance as not ready, without error.
isInstanceReady_missingIsNotReady(r) ==
    IF r.kind = "err"
    THEN [ready |-> FALSE, err |-> ProviderError, sleep |-> 0]
    ELSE IF r.kind = "nil" \/ Len(r.list) = 0
    THEN [ready |-> FALSE, err |-> "", sleep |-> 0]
    ELSE IF r.list[1].Status = "Running"
    THEN [ready |-> TRUE, err |-> "", sleep |-> 0]
    ELSE [ready |-> FALSE, err |-> "bastion instance not yet in Running status",
          sleep |-> InstanceReadySleep]

\* isInstanceReady: what it returns and how long it sleeps, for a response.
isInstanceReady(r) ==
    IF r.kind = "err"
    THEN [ready |-> FALSE, err |-> ProviderError, sleep |-> 0]
    ELSE IF r.kind = "nil" \/ Len(r.list) = 0
    THEN [ready |-> FALSE, err |-> "bastion instance not yet created", sleep |-> 0]
    ELSE IF r.list[1].Status = "Running"
    THEN [ready |-> TRUE, err |-> "", sleep |-> 0]
    ELSE [ready |-> FALSE, err |-> "bastion instance not yet in Running status",
          sleep |-> InstanceReadySleep]

\* instanceReadyOutcome asking for a retry when the instance is ready.
instanceReadyOutcome_retryWhenReady(res) ==
    IF res.err # ""
    THEN ErrorOutcome("failed to check for bastion instance")
    ELSE RequeueAfterError(InstanceReadyRequeueAfter, "bastion instance not ready yet")

\* Reconcile's use of the result of isInstanceReady.
instanceReadyOutcome(res) ==
    IF res.err # ""
    THEN ErrorOutcome("failed to check for bastion instance")
    ELSE IF ~res.ready
    THEN RequeueAfterError(InstanceReadyRequeueAfter, "bastion instance not ready yet")
    ELSE NoOutcome


isInstanceReadyStep ==
    /\ pc = "isInstanceReady"
    /\ \E r \in GetInstances(BastionInstanceName) :
         LET res == isInstanceReady(r)
             o == instanceReadyOutcome(res)
         IN /\ LogSeen("GetInstances", r.kind, seenStatus(r))
            /\ slept' = slept + res.sleep
            /\ IF o = NoOutcome
               THEN pc' = "DescribeIngress" /\ outcome' = outcome
               ELSE Return(o)
    /\ UNCHANGED << providerVars, bastionStatus, patched, loc >>
    /\ PassFrame

\* ingressPc with the revoke loop placed before the create loop.
ingressPc_revokeFirst(toAdd, toDelete) ==
    IF Len(toDelete) > 0 THEN "RevokeIngressRule"
    ELSE IF Len(toAdd) > 0 THEN "CreateIngressRule"
    ELSE "GetShootSecurityGroup"

\* Where ensureSecurityGroupRules goes on after a call of its ingress part:
\* the create loop, then the revoke loop, then the egress part.
ingressPc(toAdd, toDelete) ==
    IF Len(toAdd) > 0 THEN "CreateIngressRule"
    ELSE IF Len(toDelete) > 0 THEN "RevokeIngressRule"
    ELSE "GetShootSecurityGroup"

\* Where ensureSecurityGroupRules goes on after a call of its egress part.
egressPc(toAdd, toDelete) ==
    IF Len(toAdd) > 0 THEN "CreateEgressRule"
    ELSE IF Len(toDelete) > 0 THEN "RevokeEgressRule"
    ELSE "AllocatePublicIp"

\* ensureSecurityGroupRules: describe the ingress rules and diff them.
DescribeIngress ==
    /\ pc = "DescribeIngress"
    /\ \E r \in DescribeSecurityGroupAttribute(loc.securityGroupID, "ingress") :
         /\ Log("DescribeSecurityGroupAttribute", r.kind)
         /\ IF r.kind = "err"
            THEN Return(ErrorOutcome(ProviderError)) /\ loc' = loc
            ELSE IF r.kind = "nil"
            THEN Return(PanicOutcome) /\ loc' = loc
            ELSE LET d == ingressRulesSymmetricDifference(
                              wantedIngressRules(loc.securityGroupID), r.list)
                 IN /\ loc' = [loc EXCEPT !.rulesToAdd = d.toAdd,
                                          !.rulesToDelete = d.toDelete]
                    /\ pc' = ingressPc(d.toAdd, d.toDelete)
                    /\ outcome' = outcome
    /\ UNCHANGED << providerVars, bastionStatus, slept, patched >>
    /\ PassFrame

\* CreateIngressRule going on to the next rule when the call fails.
CreateIngressRule_continueOnError ==
    /\ pc = "CreateIngressRule"
    /\ \E r \in {"ok", "err"} :
         /\ Log("CreateIngressRule", r)
         /\ permissions' = IF r = "err" THEN permissions
                           ELSE permissions \cup
                                  {IngressPermission(Head(loc.rulesToAdd))}
         /\ loc' = [loc EXCEPT !.rulesToAdd = Tail(loc.rulesToAdd)]
         /\ pc' = ingressPc(Tail(loc.rulesToAdd), loc.rulesToDelete)
         /\ outcome' = outcome
    /\ UNCHANGED << secGroups, instances, nextId, edits, bastionStatus, slept, patched >>
    /\ PassFrame

CreateIngressRule ==
    /\ pc = "CreateIngressRule"
    /\ \E r \in {"ok", "err"} :
         /\ Log("CreateIngressRule", r)
         /\ IF r = "err"
            THEN /\ Return(ErrorOutcome("failed to add security group rule"))
                 /\ UNCHANGED << permissions, loc >>
            ELSE /\ permissions' = permissions \cup
                                     {IngressPermission(Head(loc.rulesToAdd))}
                 /\ loc' = [loc EXCEPT !.rulesToAdd = Tail(loc.rulesToAdd)]
                 /\ pc' = ingressPc(Tail(loc.rulesToAdd), loc.rulesToDelete)
                 /\ outcome' = outcome
    /\ UNCHANGED << secGroups, instances, nextId, edits, bastionStatus, slept, patched >>
    /\ PassFrame

\* revokeSecurityGroupRequest carries the group, protocol, port range and
\* the two source CIDRs of the rule to delete.
revokedByIngressRequest(sg, rule, p) ==
    /\ p.Direction = "ingress"
    /\ p.SecurityGroupId = sg
    /\ p.IpProtocol = rule.IpProtocol
    /\ p.PortRange = rule.PortRange
    /\ p.SourceCidrIp = rule.SourceCidrIp
    /\ p.Ipv6SourceCidrIp = rule.Ipv6SourceCidrIp

RevokeIngressRule ==
    /\ pc = "RevokeIngressRule"
    /\ \E r \in {"ok", "err"} :
         /\ Log("RevokeIngressRule", r)
         /\ IF r = "err"
            THEN /\ Return(ErrorOutcome("failed to delete security group rule"))
                 /\ UNCHANGED << permissions, loc >>
            ELSE /\ permissions' =
                      { p \in permissions :
                          ~revokedByIngressRequest(loc.securityGroupID,
                                                   Head(loc.rulesToDelete), p) }
                 /\ loc' = [loc EXCEPT !.rulesToDelete = Tail(loc.rulesToDelete)]
                 /\ pc' = ingressPc(loc.rulesToAdd, Tail(loc.rulesToDelete))
                 /\ outcome' = outcome
    /\ UNCHANGED << secGroups, instances, nextId, edits, bastionStatus, slept, patched >>
    /\ PassFrame

\* ensureSecurityGroupRules: the security group of the shoot.
GetShootSecurityGroup ==
    /\ pc = "GetShootSecurityGroup"
    /\ \E r \in GetSecurityGroup(ShootSecurityGroupName) :
         /\ Log("GetSecurityGroup", r.kind)
         /\ IF r.kind = "err"
            THEN Return(ErrorOutcome(ProviderError)) /\ loc' = loc
            ELSE IF r.kind = "nil"
            THEN Return(PanicOutcome) /\ loc' = loc
            ELSE IF Len(r.list) = 0
            THEN Return(ErrorOutcome("shoot security group not found")) /\ loc' = loc
            ELSE /\ loc' = [loc EXCEPT !.shootSecurityGroupId =
                                          r.list[1].SecurityGroupId]
                 /\ pc' = "GetBastionInstance"
                 /\ outcome' = outcome
    /\ UNCHANGED << providerVars, bastionStatus, slept, patched >>
    /\ PassFrame

\* ensureSecurityGroupRules: the private IP of the bastion instance.
GetBastionInstance ==
    /\ pc = "GetBastionInstance"
    /\ \E r \in GetInstances(BastionInstanceName) :
         /\ LogSeen("GetInstances", r.kind, seenStatus(r))
         /\ IF r.kind = "err"
            THEN Return(ErrorOutcome(ProviderError)) /\ loc' = loc
            ELSE IF r.kind = "nil"
            THEN Return(PanicOutcome) /\ loc' = loc
            ELSE IF Len(r.list) = 0 \/ Len(r.list[1].IpAddress) = 0
            THEN /\ Return(ErrorOutcome("bastion instance does not have a private ip"))
                 /\ loc' = loc
            ELSE /\ loc' = [loc EXCEPT !.privateIP = r.list[1].IpAddress[1]]
                 /\ pc' = "DescribeEgress"
                 /\ outcome' = outcome
    /\ UNCHANGED << providerVars, bastionStatus, slept, patched >>
    /\ PassFrame

\* ensureSecurityGroupRules: describe the egress rules and diff them.
DescribeEgress ==
    /\ pc = "DescribeEgress"
    /\ \E r \in DescribeSecurityGroupAttribute(loc.securityGroupID, "egress") :
         /\ Log("DescribeSecurityGroupAttribute", r.kind)
         /\ IF r.kind = "err"
            THEN Return(ErrorOutcome(ProviderError)) /\ loc' = loc
            ELSE IF r.kind = "nil"
            THEN Return(PanicOutcome) /\ loc' = loc
            ELSE LET d == egressRulesSymmetricDifference(
                              wantedEgressRules(loc.privateIP, loc.securityGroupID,
                                                loc.shootSecurityGroupId), r.list)
                 IN /\ loc' = [loc EXCEPT !.rulesToAdd = d.toAdd,
                                          !.rulesToDelete = d.toDelete]
                    /\ pc' = egressPc(d.toAdd, d.toDelete)
                    /\ outcome' = outcome
    /\ UNCHANGED << providerVars, bastionStatus, slept, patched >>
    /\ PassFrame

CreateEgressRule ==
    /\ pc = "CreateEgressRule"
    /\ \E r \in {"ok", "err"} :
         /\ Log("CreateEgressRule", r)
         /\ IF r = "err"
            THEN /\ Return(ErrorOutcome("failed to add security group egress rule"))
                 /\ UNCHANGED << permissions, loc >>
            ELSE /\ permissions' = permissions \cup
                                     {EgressPermission(Head(loc.rulesToAdd))}
                 /\ loc' = [loc EXCEPT !.rulesToAdd = Tail(loc.rulesToAdd)]
                 /\ pc' = egressPc(Tail(loc.rulesToAdd), loc.rulesToDelete)
                 /\ outcome' = outcome
    /\ UNCHANGED << secGroups, instances, nextId, edits, bastionStatus, slept, patched >>
    /\ PassFrame

\* revokeSecurityGroupEgressRequest carries the group, protocol and port range.
revokedByEgressRequest(sg, rule, p) ==
    /\ p.Direction = "egress"
    /\ p.SecurityGroupId = sg
    /\ p.IpProtocol = rule.IpProtocol
    /\ p.PortRange = rule.PortRange

RevokeEgressRule ==
    /\ pc = "RevokeEgressRule"
    /\ \E r \in {"ok", "err"} :
         /\ Log("RevokeEgressRule", r)
         /\ IF r = "err"
            THEN /\ Return(ErrorOutcome("failed to delete security egress group rule"))
                 /\ UNCHANGED << permissions, loc >>
            ELSE /\ permissions' =
                      { p \in permissions :
                          ~revokedByEgressRequest(loc.securityGroupID,
                                                  Head(loc.rulesToDelete), p) }
                 /\ loc' = [loc EXCEPT !.rulesToDelete = Tail(loc.rulesToDelete)]
                 /\ pc' = egressPc(loc.rulesToAdd, Tail(loc.rulesToDelete))
                 /\ outcome' = outcome
    /\ UNCHANGED << secGroups, instances, nextId, edits, bastionStatus, slept, patched >>
    /\ PassFrame

\* AllocatePublicIp: the address may not be populated yet.
AllocatePublicIp ==
    /\ pc = "AllocatePublicIp"
    /\ \E r \in {"ok", "err"}, ip \in {"", PublicIpAddress} :
         /\ Log("AllocatePublicIp", r)
         /\ IF r = "ok"
            THEN /\ loc' = [loc EXCEPT !.publicIP = ip]
                 /\ pc' = "getInstanceEndpoints"
                 /\ outcome' = outcome
            ELSE /\ Return(IF r = "err" THEN ErrorOutcome(ProviderError)
                           ELSE PanicOutcome)
                 /\ loc' = loc
    /\ UNCHANGED << providerVars, bastionStatus, slept, patched >>
    /\ PassFrame

\* getInstanceEndpoints: the endpoints, an error, or a panic on instance
\* .VpcAttributes.PrivateIpAddress.IpAddress[0] of an empty list.
getInstanceEndpoints(r, ip) ==
    IF r.kind = "err"
    THEN [endpoints |-> NilEndpoints, err |-> ProviderError, panic |-> FALSE]
    ELSE IF r.kind = "nil"
    THEN [endpoints |-> NilEndpoints, err |-> "compute instance can't be nil",
          panic |-> FALSE]
    ELSE IF Len(r.list) = 0 \/ r.list[1].Status # "Running"
    THEN [endpoints |-> NilEndpoints, err |-> "compute instance not ready yet",
          panic |-> FALSE]
    ELSE IF Len(r.list[1].IpAddress) = 0
    THEN [endpoints |-> NilEndpoints, err |-> "", panic |-> TRUE]
    ELSE [endpoints |->
            [isNil |-> FALSE,
             private |-> addressToIngress(NilString,
                                          StringPtr(r.list[1].IpAddress[1])),
             public |-> addressToIngress(NilString, StringPtr(ip))],
          err |-> "", panic |-> FALSE]

\* endpointsOutcome without the Ready check.
endpointsOutcome_noReadyCheck(res) ==
    IF res.panic THEN PanicOutcome
    ELSE IF res.err # "" THEN ErrorOutcome(res.err)
    ELSE NoOutcome

\* Reconcile's use of the endpoints.
endpointsOutcome(res) ==
    IF res.panic THEN PanicOutcome
    ELSE IF res.err # "" THEN ErrorOutcome(res.err)
    ELSE IF ~Ready(res.endpoints)
    THEN RequeueAfterError(EndpointsRequeueAfter,
                           "bastion instance has no public/private endpoints yet")
    ELSE NoOutcome

getInstanceEndpointsStep ==
    /\ pc = "getInstanceEndpoints"
    /\ \E r \in GetInstances(BastionInstanceName) :
         LET res == getInstanceEndpoints(r, loc.publicIP)
             o == endpointsOutcome(res)
         IN /\ LogSeen("GetInstances", r.kind, seenStatus(r))
            /\ loc' = [loc EXCEPT !.endpoints = res.endpoints]
            /\ IF o = NoOutcome
               THEN pc' = "StatusPatch" /\ outcome' = outcome
               ELSE Return(o)
    /\ UNCHANGED << providerVars, bastionStatus, slept, patched >>
    /\ PassFrame

\* publishedIngress taking the private endpoint.
publishedIngress_private(endpoints) == endpoints.private

\* The endpoint Reconcile puts into bastion.Status.Ingress.
publishedIngress(endpoints) == endpoints.public

\* bastion.Status.Ingress = endpoints.public; a.client.Status().Patch(...):
\* the field of the bastion object in memory is set, then the patch is sent;
\* the persisted status changes when the patch succeeds.
StatusPatch ==
    /\ pc = "StatusPatch"
    /\ patched' = patched + 1
    /\ loc' = [loc EXCEPT !.statusIngress = publishedIngress(loc.endpoints)]
    /\ \E ok \in BOOLEAN :
         IF ok
         THEN /\ bastionStatus' = publishedIngress(loc.endpoints)
              /\ Return(Success)
         ELSE /\ bastionStatus' = bastionStatus
              /\ Return(ErrorOutcome("patch failed"))
    /\ UNCHANGED << providerVars, calls, slept >>
    /\ PassFrame

(***************************************************************************)
(* The provider's own progress on the bastion instance.                    *)
(***************************************************************************)
SetInstance(i, field, value) ==
    instances' = [instances EXCEPT ![i] = [@ EXCEPT ![field] = value]]

\* The pass sees the instance only in its four lookups, so a change of the
\* instance is taken right before one of them.
InstanceObserved ==
    pc \in {"ensureComputeInstance", "isInstanceReady", "GetBastionInstance",
            "getInstanceEndpoints"}

EnvFrame == UNCHANGED << secGroups, permissions, nextId, edits, inputVars,
                         bastionStatus, passVars, diffVars, ensureVars,
                         endpointVars >>

InstanceStarts ==
    /\ InstanceObserved
    /\ \E i \in 1..Len(instances) :
         /\ instances[i].Status = "Pending"
         /\ SetInstance(i, "Status", "Running")
    /\ EnvFrame

InstanceStops ==
    /\ InstanceObserved
    /\ \E i \in 1..Len(instances) :
         /\ instances[i].Status = "Running"
         /\ SetInstance(i, "Status", "Stopped")
    /\ EnvFrame

InstanceGetsPrivateIp ==
    /\ InstanceObserved
    /\ \E i \in 1..Len(instances) :
         /\ instances[i].IpAddress # << PrivateIpAddress >>
         /\ instances[i].Status # "Stopped"
         /\ SetInstance(i, "IpAddress", << PrivateIpAddress >>)
    /\ EnvFrame

InstanceReleased ==
    /\ InstanceObserved
    /\ Len(instances) > 0
    /\ instances[1].Status = "Stopped"
    /\ instances' = Tail(instances)
    /\ EnvFrame

\* Between two passes (taken when the next pass has started and has not
\* called the provider yet), the description of a rule is edited out-of-band.
RuleEditedOutOfBand ==
    /\ pc = "Prepare"
    /\ edits < MaxEdits
    /\ \E p \in permissions :
         /\ p.Description # "edited"
         /\ permissions' = (permissions \ {p}) \cup
                              {[p EXCEPT !.Description = "edited"]}
    /\ edits' = edits + 1
    /\ UNCHANGED << secGroups, instances, nextId, inputVars, bastionStatus,
                    passVars, diffVars, ensureVars, endpointVars >>

(***************************************************************************)
(* The specification of the passes.                                        *)
(***************************************************************************)
DiffOff ==
    /\ dKind = "off" /\ dWanted = << >> /\ dCurrent = << >>
    /\ dAdd = << >> /\ dDel = << >> /\ dApplied = FALSE

EnsureOff ==
    /\ eKind = "off" /\ eResources = << >> /\ eCallNo = 0
    /\ eResponse = << >> /\ eCreates = << >> /\ eIds = << >>

EndpointsOff ==
    /\ bInput = << >> /\ bEndpoints = NilEndpoints
    /\ bReady = FALSE /\ bApplied = FALSE

PassIdle ==
    /\ pc = "idle" /\ passNo = 0 /\ outcome = NoOutcome /\ calls = << >>
    /\ history = << >>
    /\ slept = 0 /\ patched = 0 /\ loc = InitLoc

Init ==
    /\ \E c \in Configurations :
         /\ secGroups = c[1]
         /\ allowlist = c[2]
         /\ machineTypes = c[3]
    /\ instances = << >>
    /\ permissions = {}
    /\ nextId = 1
    /\ edits = 0
    /\ bastionStatus = NilIngress
    /\ PassIdle
    /\ DiffOff
    /\ EnsureOff
    /\ EndpointsOff

PassStep ==
    \/ Prepare
    \/ GetVPCInfoByName
    \/ GetVSwitchesInfoByID
    \/ GetInstanceTypeStep
    \/ ensureSecurityGroup
    \/ CreateSecurityGroups
    \/ ensureComputeInstance
    \/ CreateInstances
    \/ isInstanceReadyStep
    \/ DescribeIngress
    \/ CreateIngressRule
    \/ RevokeIngressRule
    \/ GetShootSecurityGroup
    \/ GetBastionInstance
    \/ DescribeEgress
    \/ CreateEgressRule
    \/ RevokeEgressRule
    \/ AllocatePublicIp
    \/ getInstanceEndpointsStep
    \/ StatusPatch

ProviderStep ==
    \/ InstanceStarts
    \/ InstanceStops
    \/ InstanceGetsPrivateIp
    \/ InstanceReleased
    \/ RuleEditedOutOfBand

Next ==
    \/ StartPass
    \/ PassStep
    \/ ProviderStep

Spec == Init /\ [][Next]_vars

\* The pass up to the creation of the instance, the last use of the
\* instance type, with the probes logged in detail.
ProbePassStep ==
    \/ Prepare
    \/ GetVPCInfoByName
    \/ GetVSwitchesInfoByID
    \/ GetInstanceTypeProbe
    \/ ensureSecurityGroup
    \/ CreateSecurityGroups
    \/ ensureComputeInstance
    \/ CreateInstances

NextProbe ==
    \/ StartPass
    \/ ProbePassStep

SpecProbe == Init /\ [][NextProbe]_vars


(***************************************************************************)
(* The end-to-end scenario: an allowlist of one CIDR, a provider without   *)
(* the bastion's security group and instance, and the outcomes of the      *)
(* passes kept in history.                                                 *)
(***************************************************************************)
InitE2E ==
    /\ Init
    /\ secGroups = << ShootSecurityGroup >>
    /\ allowlist = SubSeq(CidrList, 1, 1)
    /\ machineTypes = MachineTypes

NextE2E ==
    \/ StartPassRecorded
    \/ PassStep
    \/ ProviderStep

SpecE2E == InitE2E /\ [][NextE2E]_vars

(***************************************************************************)
(* The passes under an outer loop that invokes Reconcile again after every *)
(* return, against a provider whose calls may fail during the first        *)
(* MaxFailingPasses passes and succeed from then on, and whose bastion     *)
(* instance starts, gets its private IP and keeps running.  The pass       *)
(* counter stops at MaxFailingPasses + 1.                                  *)
(***************************************************************************)
ReinvokePass ==
    /\ InvokePass(Min(passNo + 1, MaxFailingPasses + 1))
    /\ history' = history

\* The provider's calls have stopped failing.
CallsSettled == passNo > MaxFailingPasses

\* The step made no provider call that returned an error or an unusable
\* response, and no collaborator of the pass (options, status patch) failed.
NoCallFailed ==
    /\ \A i \in DOMAIN calls' : calls'[i].res \in {"ok", "skipped", "Available"}
    /\ outcome'.kind # "panic"
    /\ outcome'.cause \notin {"options", "patch failed"}

SettledPassStep ==
    /\ PassStep
    /\ CallsSettled =>
          /\ NoCallFailed
          /\ pc = "AllocatePublicIp" => loc'.publicIP = PublicIpAddress

NextConverge ==
    \/ ReinvokePass
    \/ SettledPassStep
    \/ InstanceStarts
    \/ InstanceGetsPrivateIp
    \/ RuleEditedOutOfBand

SpecConverge ==
    /\ InitE2E
    /\ [][NextConverge]_vars
    /\ WF_vars(ReinvokePass)
    /\ WF_vars(SettledPassStep)
    /\ SF_vars(InstanceStarts)
    /\ SF_vars(InstanceGetsPrivateIp)

(***************************************************************************)
(* The rule symmetric differences applied to drawn rule lists.             *)
(***************************************************************************)
BoundedSeq(S, n) == UNION { [1..k -> S] : k \in 0..n }

Range(f) == { f[i] : i \in DOMAIN f }

DiffGroup == 1

IngressRequests ==
    { ingressAllowSSH(DiffGroup, CidrList[1]),
      ingressAllowSSH(DiffGroup, CidrList[2]),
      IngressRequest(DiffGroup, "edited", "tcp", SSHPortRange,
                     CidrList[1].cidr, "") }

IngressPermissions ==
    { IngressPermission(r) : r \in IngressRequests } \cup
    { Permission("ingress", DiffGroup, "SSH access for Bastion", "tcp",
                 "80/80", CidrList[1].cidr, "", "", 0, "accept") }

EgressRequests ==
    { egressAllowSSHToWorker(PrivateIpAddress, DiffGroup, ShootSecurityGroupId),
      egressDenyAll(DiffGroup),
      EgressRequest(DiffGroup, "edited", "all", "-1/-1", "", "0.0.0.0/0", 0,
                    "drop") }

EgressPermissions ==
    { EgressPermission(r) : r \in EgressRequests } \cup
    { \* the SSH rule with another action
      Permission("egress", DiffGroup, "Allow Bastion egress to Shoot workers",
                 "tcp", SSHPortRange, PrivateIpAddress, "", "",
                 ShootSecurityGroupId, "drop"),
      \* the deny-all rule with another destination
      Permission("egress", DiffGroup, "Bastion egress deny", "all", "-1/-1",
                 "", "", "10.0.0.0/8", 0, "drop"),
      \* the SSH rule with another source
      Permission("egress", DiffGroup, "Allow Bastion egress to Shoot workers",
                 "tcp", SSHPortRange, "10.0.0.6", "", "",
                 ShootSecurityGroupId, "accept") }

ProviderIdle ==
    /\ secGroups = << >> /\ instances = << >> /\ permissions = {}
    /\ nextId = 1 /\ edits = 0 /\ allowlist = << >> /\ machineTypes = << >>
    /\ bastionStatus = NilIngress

InitDiff ==
    /\ ProviderIdle
    /\ PassIdle
    /\ EnsureOff
    /\ EndpointsOff
    /\ \/ /\ dKind = "ingress"
          /\ dWanted \in BoundedSeq(IngressRequests, MaxRules)
          /\ dCurrent \in BoundedSeq(IngressPermissions, MaxRules)
       \/ /\ dKind = "egress"
          /\ dWanted \in BoundedSeq(EgressRequests, MaxRules)
          /\ dCurrent \in BoundedSeq(EgressPermissions, MaxRules)
    /\ dAdd = << >>
    /\ dDel = << >>
    /\ dApplied = FALSE

DiffFrame == UNCHANGED << providerVars, inputVars, bastionStatus, passVars,
                          ensureVars, endpointVars, dKind, dWanted, dCurrent >>

ApplyIngressDiff ==
    /\ dKind = "ingress"
    /\ ~dApplied
    /\ LET d == ingressRulesSymmetricDifference(dWanted, dCurrent)
       IN dAdd' = d.toAdd /\ dDel' = d.toDelete
    /\ dApplied' = TRUE
    /\ DiffFrame

ApplyEgressDiff ==
    /\ dKind = "egress"
    /\ ~dApplied
    /\ LET d == egressRulesSymmetricDifference(dWanted, dCurrent)
       IN dAdd' = d.toAdd /\ dDel' = d.toDelete
    /\ dApplied' = TRUE
    /\ DiffFrame

NextDiff ==
    \/ ApplyIngressDiff
    \/ ApplyEgressDiff

SpecDiff == InitDiff /\ [][NextDiff]_vars

(***************************************************************************)
(* The ensure operations as whole calls, applied repeatedly to a provider  *)
(* that already holds the named resource, for every list its name lookup   *)
(* may return that contains the named resource.                            *)
(***************************************************************************)
\* ensureSecurityGroup: the id returned and whether CreateSecurityGroups ran.
ensureSecurityGroupCall(list, securityGroupName, newId) ==
    IF securityGroupFound(list, securityGroupName)
    THEN [id |-> list[1].SecurityGroupId, created |-> FALSE]
    ELSE [id |-> newId, created |-> TRUE]

\* ensureComputeInstance: the id returned and whether CreateInstances ran.
ensureComputeInstanceCall(list, instanceName, newId) ==
    IF computeInstanceFound(list, instanceName)
    THEN [id |-> list[1].InstanceId, created |-> FALSE]
    ELSE [id |-> newId, created |-> TRUE]

Group(name, id) == [SecurityGroupName |-> name, SecurityGroupId |-> id]

Instance(name, id) ==
    [InstanceName |-> name, InstanceId |-> id, Status |-> "Running",
     IpAddress |-> << PrivateIpAddress >>]

IsInjective(f) == \A i, j \in DOMAIN f : f[i] = f[j] => i = j

NameOf(kind, r) ==
    IF kind = "securityGroup" THEN r.SecurityGroupName ELSE r.InstanceName

\* The lists over the provider's resources that contain a resource of the
\* given name.
LookupLists(kind, resources, name) ==
    { l \in BoundedSeq(Range(resources), MaxListLen) :
        IsInjective(l) /\ \E i \in DOMAIN l : NameOf(kind, l[i]) = name }

InitEnsure ==
    /\ ProviderIdle
    /\ PassIdle
    /\ DiffOff
    /\ EndpointsOff
    /\ \/ /\ eKind = "securityGroup"
          /\ eResources \in
               { << Group(SecurityGroupName, 1) >>,
                 << Group(SecurityGroupName, 1), Group(OtherName, 2) >>,
                 << Group(OtherName, 2), Group(SecurityGroupName, 1),
                    Group(ShootSecurityGroupName, ShootSecurityGroupId) >> }
       \/ /\ eKind = "instance"
          /\ eResources \in
               { << Instance(BastionInstanceName, 1) >>,
                 << Instance(BastionInstanceName, 1), Instance(OtherName, 2) >>,
                 << Instance(OtherName, 2), Instance(BastionInstanceName, 1),
                    Instance("worker-1", 3) >> }
    /\ eCallNo = 0
    /\ eResponse = << >>
    /\ eCreates = << >>
    /\ eIds = << >>

EnsureFrame == UNCHANGED << providerVars, inputVars, bastionStatus, passVars,
                            diffVars, endpointVars, eKind >>

NewId(resources) == Len(resources) + 101

EnsureSecurityGroupCall ==
    /\ eKind = "securityGroup"
    /\ eCallNo < MaxEnsureCalls
    /\ \E list \in LookupLists(eKind, eResources, SecurityGroupName) :
         LET res == ensureSecurityGroupCall(list, SecurityGroupName,
                                            NewId(eResources))
         IN /\ eResponse' = list
            /\ eResources' = IF res.created
                             THEN Append(eResources,
                                         Group(SecurityGroupName, res.id))
                             ELSE eResources
            /\ eCreates' = Append(eCreates, IF res.created THEN 1 ELSE 0)
            /\ eIds' = Append(eIds, res.id)
    /\ eCallNo' = eCallNo + 1
    /\ EnsureFrame

EnsureComputeInstanceCall ==
    /\ eKind = "instance"
    /\ eCallNo < MaxEnsureCalls
    /\ \E list \in LookupLists(eKind, eResources, BastionInstanceName) :
         LET res == ensureComputeInstanceCall(list, BastionInstanceName,
                                              NewId(eResources))
         IN /\ eResponse' = list
            /\ eResources' = IF res.created
                             THEN Append(eResources,
                                         Instance(BastionInstanceName, res.id))
                             ELSE eResources
            /\ eCreates' = Append(eCreates, IF res.created THEN 1 ELSE 0)
            /\ eIds' = Append(eIds, res.id)
    /\ eCallNo' = eCallNo + 1
    /\ EnsureFrame

NextEnsure ==
    \/ EnsureSecurityGroupCall
    \/ EnsureComputeInstanceCall

SpecEnsure == InitEnsure /\ [][NextEnsure]_vars

(***************************************************************************)
(* Ready applied to the endpoints getInstanceEndpoints builds with         *)
(* addressToIngress, for drawn optional host names and addresses of the    *)
(* two sides, and to a nil endpoints value.                                *)
(***************************************************************************)
OptionalStrings(s) == { NilString, StringPtr(""), StringPtr(s) }

EndpointInputs ==
    [isNil : BOOLEAN,
     privateDns : OptionalStrings("bastion.internal"),
     privateIp : OptionalStrings(PrivateIpAddress),
     publicDns : OptionalStrings("bastion.example.org"),
     publicIp : OptionalStrings(PublicIpAddress)]

\* The bastionEndpoints value of the inputs: private and public are set from
\* addressToIngress, and stay nil when it returns nil.
bastionEndpoints(in) ==
    IF in.isNil THEN NilEndpoints
    ELSE [isNil |-> FALSE,
          private |-> addressToIngress(in.privateDns, in.privateIp),
          public |-> addressToIngress(in.publicDns, in.publicIp)]

InitReady ==
    /\ ProviderIdle
    /\ PassIdle
    /\ DiffOff
    /\ EnsureOff
    /\ bInput \in EndpointInputs
    /\ bEndpoints = NilEndpoints
    /\ bReady = FALSE
    /\ bApplied = FALSE

ApplyReady ==
    /\ ~bApplied
    /\ bEndpoints' = bastionEndpoints(bInput)
    /\ bReady' = Ready(bastionEndpoints(bInput))
    /\ bApplied' = TRUE
    /\ UNCHANGED << providerVars, inputVars, bastionStatus, passVars, diffVars,
                    ensureVars, bInput >>

NextReady == ApplyReady

SpecReady == InitReady /\ [][NextReady]_vars


(***************************************************************************)
(* Properties.                                                             *)
(***************************************************************************)
Last(q) == q[Len(q)]

\* Every provider call of the pass so far returned without error and with a
\* usable response.
AllCallsSucceeded ==
    \A i \in DOMAIN calls : calls[i].res \in {"ok", "skipped", "Available"}

CountCalls(op) == Cardinality({ i \in DOMAIN calls : calls[i].op = op })

NotReadyYet ==
    RequeueAfterError(InstanceReadyRequeueAfter, "bastion instance not ready yet")

NoEndpointsYet ==
    RequeueAfterError(EndpointsRequeueAfter,
                      "bastion instance has no public/private endpoints yet")

\* The readiness check of the pass has just looked the instance up and found
\* it in a status other than Running.
ReadinessSawNotRunning ==
    /\ Len(calls) > 0
    /\ Last(calls).site = "isInstanceReady"
    /\ Last(calls).res = "ok"
    /\ Last(calls).seen \notin {"none", "Running"}

\* C1: in a pass where every provider call succeeds and the readiness check
\* finds the instance in a status other than Running, the pass returns the
\* retry signal (wait 10, cause 'bastion instance not ready yet'), not an
\* error, and runs no rule, address or status step.
C1_NotRunningYieldsRetryAfter10 ==
    (AllCallsSucceeded /\ ReadinessSawNotRunning)
        => /\ pc = "done"
           /\ outcome = NotReadyYet
           /\ patched = 0

\* The rule equality the symmetric difference of the drawn family uses.
RuleEqual(w, o) == ruleEqual(dKind, w, o)

\* The observed rules left once toDelete is revoked.
Remaining == Range(dCurrent) \ Range(dDel)

\* C2: for every wanted list W and observed list O, under the rule equality
\* of the function: no element of toAdd equals an element of O, toDelete is
\* a subset of O, no element of toDelete equals an element of W, and
\* (O minus toDelete) union toAdd is set-equal to W.
C2_SymmetricDifferenceCorrect ==
    dApplied =>
        /\ \A a \in Range(dAdd), o \in Range(dCurrent) : ~RuleEqual(a, o)
        /\ Range(dDel) \subseteq Range(dCurrent)
        /\ \A d \in Range(dDel), w \in Range(dWanted) : ~RuleEqual(w, d)
        /\ Range(dAdd) \subseteq Range(dWanted)
        /\ \A r \in Remaining : \E w \in Range(dWanted) : RuleEqual(w, r)
        /\ \A w \in Range(dWanted) :
              w \in Range(dAdd) \/ \E r \in Remaining : RuleEqual(w, r)

\* Both lists non-empty, something to add, something to delete, something kept.
C2_Witness ==
    /\ dApplied
    /\ dKind = "ingress"
    /\ Len(dAdd) > 0
    /\ Len(dDel) > 0
    /\ Remaining # {}

\* C3: a second call of an ensure operation with the same inputs, against a
\* provider that already holds the named resource, creates nothing and
\* returns the same id as the first call, whatever list that contains the
\* named resource the lookup returns.
C3_EnsureIsIdempotent ==
    eCallNo >= 2 => /\ eCreates[2] = 0
                    /\ eIds[2] = eIds[1]

\* The pass returned, and it had one lookup of the bastion instance after the
\* ensure step that showed the given status.
ReturnedAfterSeeing(site, status) ==
    /\ pc = "done"
    /\ Len(calls) > 0
    /\ Last(calls).site = site
    /\ Last(calls).res = "ok"
    /\ Last(calls).seen = status

CreatedThisPass ==
    /\ CountCalls("CreateSecurityGroups") = 1
    /\ CountCalls("CreateInstances") = 1

NoCreateThisPass ==
    /\ CountCalls("CreateSecurityGroups") = 0
    /\ CountCalls("CreateInstances") = 0

\* C4: three passes against a provider that starts without the bastion
\* security group and instance: pass 1 creates both and returns retry after
\* 10; pass 2 creates one ingress rule per allowlist CIDR and two egress
\* rules, allocates the address and returns retry after 5; pass 3 publishes
\* the public endpoint and returns success; no pass returns an error and
\* passes 2 and 3 create no security group or instance.
C4_EndToEndThreePasses ==
    /\ (/\ passNo = 1
        /\ AllCallsSucceeded
        /\ CreatedThisPass
        /\ ReturnedAfterSeeing("isInstanceReady", "Pending"))
           => outcome = NotReadyYet
    /\ (/\ passNo = 2
        /\ history = << [kind |-> "requeue", after |-> InstanceReadyRequeueAfter] >>
        /\ AllCallsSucceeded
        /\ ReturnedAfterSeeing("getInstanceEndpoints", "Running")
        /\ loc.publicIP = "")
           => /\ outcome = NoEndpointsYet
              /\ NoCreateThisPass
              /\ CountCalls("CreateIngressRule") = Len(allowlist)
              /\ CountCalls("CreateEgressRule") = 2
              /\ CountCalls("AllocatePublicIp") = 1
    /\ (/\ passNo = 3
        /\ history = << [kind |-> "requeue", after |-> InstanceReadyRequeueAfter],
                        [kind |-> "requeue", after |-> EndpointsRequeueAfter] >>
        /\ AllCallsSucceeded
        /\ pc = "done"
        /\ patched = 1
        /\ outcome.kind # "error")
           => /\ outcome = Success
              /\ NoCreateThisPass
              /\ bastionStatus = loc.endpoints.public
              /\ bastionStatus.IP = PublicIpAddress

\* C5: in a pass whose endpoint check finds the instance Running and computes
\* endpoints that are not Ready, the pass returns the retry signal with a
\* wait of 5, not an error, and issues no status patch.
C5_EndpointsNotReadyYieldsRetryAfter5 ==
    (/\ Len(calls) > 0
     /\ Last(calls).site = "getInstanceEndpoints"
     /\ Last(calls).res = "ok"
     /\ Last(calls).seen = "Running"
     /\ ~loc.endpoints.isNil
     /\ ~Ready(loc.endpoints))
        => /\ pc = "done"
           /\ outcome = NoEndpointsYet
           /\ patched = 0

C5_Witness ==
    /\ ReturnedAfterSeeing("getInstanceEndpoints", "Running")
    /\ ~loc.endpoints.isNil
    /\ loc.endpoints.public.IP = ""
    /\ outcome = NoEndpointsYet

\* C6: a lookup of the readiness probe that finds no instance (in
\* isInstanceReady or in getInstanceEndpoints), or a lookup of
\* getInstanceEndpoints that finds the instance not Running, ends the pass
\* with an error, never with a retry signal.
C6_MissingInstanceIsError ==
    \A i \in DOMAIN calls :
        (\/ /\ calls[i].site \in {"isInstanceReady", "getInstanceEndpoints"}
            /\ calls[i].seen = "none"
         \/ /\ calls[i].site = "getInstanceEndpoints"
            /\ calls[i].seen # "Running")
        => /\ i = Len(calls)
           /\ pc = "done"
           /\ outcome.kind = "error"

C6_Witness ==
    /\ ReturnedAfterSeeing("getInstanceEndpoints", "Stopped")
    /\ outcome.kind = "error"

\* C7: no step of a pass sleeps or waits; 'not ready' is only a returned
\* value.
C7_PassNeverSleeps == slept = 0

\* C8: egressRuleEqual holds between a wanted and an observed egress rule
\* only if description, protocol, port range, source CIDR, destination and
\* action all match; a pair differing only in destination or action is not
\* equal.
C8_EgressEqualityComparesDestinationAndAction ==
    (dKind = "egress" /\ dApplied) =>
        \A w \in Range(dWanted), o \in Range(dCurrent) :
            egressRuleEqual(w, o) =>
                /\ w.Description = o.Description
                /\ w.IpProtocol = o.IpProtocol
                /\ w.PortRange = o.PortRange
                /\ w.SourceCidrIp = o.SourceCidrIp
                /\ w.DestCidrIp = o.DestCidrIp
                /\ w.DestGroupId = o.DestGroupId
                /\ w.Policy = o.Policy

\* The probes of the pass so far, and whether the probing range is exhausted
\* without an Available entry.
Probes == SelectSeq(calls, LAMBDA c : c.op = "GetInstanceType")

NoneAvailable ==
    /\ Len(Probes) = MaxCores
    /\ \A i \in DOMAIN Probes : Probes[i].res = "skipped"

LookupOrCreateOps ==
    {"GetSecurityGroup", "CreateSecurityGroups", "GetInstances", "CreateInstances"}

\* C9: if no probed core count yields an Available entry, the resolved
\* instance type is the first machine type of the cloud profile and the pass
\* continues (an instance it creates gets that type); with an empty machine
\* type list the pass ends with an error before any security group or
\* instance lookup or creation.
C9_FallbackToFirstMachineType ==
    NoneAvailable =>
        IF Len(machineTypes) = 0
        THEN /\ pc = "done"
             /\ outcome.kind = "error"
             /\ \A i \in DOMAIN calls : calls[i].op \notin LookupOrCreateOps
        ELSE /\ loc.instanceTypeId = machineTypes[1]
             /\ Last(calls).op = "GetInstanceType" => pc = "ensureSecurityGroup"
             /\ \A i \in DOMAIN calls :
                    calls[i].op = "CreateInstances" => calls[i].seen = machineTypes[1]

C9_Witness ==
    /\ NoneAvailable
    /\ machineTypes = MachineTypes
    /\ Last(calls).op = "CreateInstances"
    /\ Last(calls).res = "ok"
    /\ Last(calls).seen = "m.small"
    /\ Len(instances) = 1
    /\ instances[1].InstanceId = loc.instanceID

\* C10: a provider call that returns an error is the last provider call of
\* its pass, the pass ends with an error outcome (never success or retry),
\* and no status patch is issued.
C10_ProviderErrorEndsPass ==
    \A i \in DOMAIN calls :
        calls[i].res = "err"
            => /\ i = Len(calls)
               /\ pc = "done"
               /\ outcome.kind = "error"
               /\ patched = 0

\* A create of the second ingress rule failed after the first was applied.
C10_Witness ==
    /\ pc = "done"
    /\ Len(calls) > 1
    /\ Last(calls).op = "CreateIngressRule"
    /\ Last(calls).res = "err"
    /\ calls[Len(calls) - 1].op = "CreateIngressRule"
    /\ outcome.kind = "error"

\* C11: a nil response of a security group or instance lookup, or a
\* creation response without instance id, returned without error, ends the
\* pass with an error outcome: the call is the last of the pass and the
\* pass neither crashes nor goes on.
C11_NilResponseIsError ==
    \A i \in DOMAIN calls :
        calls[i].res \in {"nil", "noid"}
            => /\ i = Len(calls)
               /\ pc = "done"
               /\ outcome.kind = "error"

\* A side is present when a host name or an address was given for it, and
\* populated when one of the two given is not the empty string.
SidePresent(dns, ip) == ~dns.isNil \/ ~ip.isNil

SidePopulated(dns, ip) ==
    \/ ~dns.isNil /\ dns.val # ""
    \/ ~ip.isNil /\ ip.val # ""

\* C12: Ready is true exactly when the endpoints value is not nil and both
\* the private and the public side are present and have a non-empty host
\* name or a non-empty IP; so it is false for a nil endpoints value, when
\* both sides are absent, when one side only is populated and when a present
\* side has both fields empty.
C12_ReadyIffBothSidesPopulated ==
    bApplied =>
        (bReady <=>
            /\ ~bInput.isNil
            /\ SidePresent(bInput.privateDns, bInput.privateIp)
            /\ SidePopulated(bInput.privateDns, bInput.privateIp)
            /\ SidePresent(bInput.publicDns, bInput.publicIp)
            /\ SidePopulated(bInput.publicDns, bInput.publicIp))

\* Ready answered true for a private side with an IP only and a public side
\* with a host name only.
C12_Witness ==
    /\ bApplied
    /\ bReady
    /\ bEndpoints.private.Hostname = "" /\ bEndpoints.private.IP # ""
    /\ bEndpoints.public.Hostname # "" /\ bEndpoints.public.IP = ""

\* The rules the provider holds for a group in a direction.
HeldRules(sg, dir) ==
    { p \in permissions : p.SecurityGroupId = sg /\ p.Direction = dir }

\* Set equality of held and wanted rules under the rule equality of the
\* family.
RulesSetEqual(family, held, wanted) ==
    /\ \A p \in held : \E w \in Range(wanted) : ruleEqual(family, w, p)
    /\ \A w \in Range(wanted) : \E p \in held : ruleEqual(family, w, p)

\* C13: when ensureSecurityGroupRules has returned without error (the pass
\* is about to allocate the public address), the ingress rules the provider
\* holds for the bastion security group are set-equal to the wanted ingress
\* rules and its egress rules to the wanted egress rules, whatever rules
\* the step observed at its start.
C13_RulesMatchWantedAfterReconciliation ==
    pc = "AllocatePublicIp" =>
        /\ RulesSetEqual("ingress", HeldRules(loc.securityGroupID, "ingress"),
                         wantedIngressRules(loc.securityGroupID))
        /\ RulesSetEqual("egress", HeldRules(loc.securityGroupID, "egress"),
                         wantedEgressRules(loc.privateIP, loc.securityGroupID,
                                           loc.shootSecurityGroupId))

\* The provider calls of Reconcile and its callees, in program order.
StepOrder ==
    << "GetVPCInfoByName", "GetVSwitchesInfoByID", "GetInstanceType",
       "ensureSecurityGroup", "CreateSecurityGroups",
       "ensureComputeInstance", "CreateInstances", "isInstanceReady",
       "DescribeIngress", "CreateIngressRule", "RevokeIngressRule",
       "GetShootSecurityGroup", "GetBastionInstance", "DescribeEgress",
       "CreateEgressRule", "RevokeEgressRule", "AllocatePublicIp",
       "getInstanceEndpoints" >>

\* The position of each step in the program order.
StepRankOf ==
    [site \in {StepOrder[i] : i \in DOMAIN StepOrder} |->
        CHOOSE i \in DOMAIN StepOrder : StepOrder[i] = site]

StepRank(site) == StepRankOf[site]

RuleChangeOps ==
    {"CreateIngressRule", "RevokeIngressRule", "CreateEgressRule",
     "RevokeEgressRule"}

\* Before call i, the readiness check of this pass saw the instance Running.
SawRunningBefore(i) ==
    \E j \in 1..(i - 1) :
        /\ calls[j].site = "isInstanceReady"
        /\ calls[j].res = "ok"
        /\ calls[j].seen = "Running"

\* Before call i, the security group id was resolved in this pass.
GroupResolvedBefore(i) ==
    \E j \in 1..(i - 1) :
        /\ calls[j].site \in {"ensureSecurityGroup", "CreateSecurityGroups"}
        /\ calls[j].res = "ok"
        /\ loc.securityGroupID # 0

\* Before call i, both parts of the rule reconciliation ran and no call of
\* them failed.
RulesReconciledBefore(i) ==
    /\ \E j \in 1..(i - 1) : calls[j].site = "DescribeIngress"
    /\ \E j \in 1..(i - 1) : calls[j].site = "DescribeEgress"
    /\ \A j \in 1..(i - 1) :
          StepRank(calls[j].site) >= StepRank("DescribeIngress")
              => calls[j].res = "ok"

\* C14: the provider calls of a pass occur in program order (network,
\* subnet, instance type, security group, instance, readiness, ingress
\* creates, ingress revokes, egress creates, egress revokes, address,
\* endpoints) and the status is published after all of them; no instance is
\* created before the security group id is resolved, no rule is created or
\* revoked and no address is allocated unless the readiness check saw the
\* instance Running in this pass, and the address is allocated only after
\* the rule reconciliation returned without error.
C14_StepsInFixedOrder ==
    /\ \A i \in 1..(Len(calls) - 1) :
          StepRank(calls[i].site) <= StepRank(calls[i + 1].site)
    /\ \A i \in DOMAIN calls :
          /\ calls[i].op = "CreateInstances" => GroupResolvedBefore(i)
          /\ calls[i].op \in RuleChangeOps \cup {"AllocatePublicIp"}
                => SawRunningBefore(i)
          /\ calls[i].op = "AllocatePublicIp" => RulesReconciledBefore(i)
    /\ (pc = "StatusPatch" \/ patched > 0)
          => /\ Len(calls) > 0
             /\ Last(calls).site = "getInstanceEndpoints"
             /\ Last(calls).res = "ok"

\* A successful pass that created and revoked an ingress rule and created
\* egress rules on its way.
C14_Witness ==
    /\ pc = "done"
    /\ outcome = Success
    /\ \E i, j, k \in DOMAIN calls :
          /\ calls[i].op = "CreateIngressRule"
          /\ calls[j].op = "RevokeIngressRule"
          /\ calls[k].op = "CreateEgressRule"

\* The pass returned a retry signal or an error.
ReturnedRetryOrError ==
    pc = "done" /\ outcome.kind \in {"requeue", "error"}

\* C15, as stated: a pass that returned a retry signal or an error has
\* issued no status patch and has left the status ingress field of the
\* bastion as it was.
C15_RetryOrErrorPassIssuesNoPatch ==
    ReturnedRetryOrError =>
        /\ patched = 0
        /\ loc.statusIngress = bastionStatus

\* The patch step: it runs after an endpoint lookup that saw the instance
\* Running and computed Ready endpoints; it ends the pass with success and
\* the public endpoint persisted, or with an error and the persisted status
\* as before.
PatchStep ==
    /\ pc = "StatusPatch"
    /\ Last(calls).site = "getInstanceEndpoints"
    /\ Last(calls).seen = "Running"
    /\ Ready(loc.endpoints)
    /\ pc' = "done"
    /\ \/ /\ outcome' = Success
          /\ bastionStatus' = loc.endpoints.public
          /\ bastionStatus'.IP = loc.publicIP
       \/ /\ outcome'.kind = "error"
          /\ bastionStatus' = bastionStatus

\* C15, amended: the persisted status changes only in the patch step of a
\* pass that returns success, which sets it to the public endpoint computed
\* in that pass from a Running instance with Ready endpoints; a status patch
\* is issued only in the patch step and at most once per pass; a pass that
\* returns a retry signal, or an error of any step before the patch, has
\* issued no patch and has left the status ingress field as it was; a pass
\* whose patch fails returns an error with the persisted status unchanged.
C15_StatusChangedOnlyByPatchStep ==
    /\ [][(bastionStatus' # bastionStatus \/ patched' > patched) => PatchStep]_vars
    /\ [](pc = "done" /\ outcome.kind = "success"
            => /\ patched = 1
               /\ bastionStatus = loc.endpoints.public
               /\ bastionStatus.IP = loc.publicIP
               /\ bastionStatus # loc.endpoints.private)
    /\ [](pc = "done" /\ outcome.kind = "requeue" => patched = 0)
    /\ [](pc = "done" /\ outcome.kind \in {"requeue", "error"} /\ patched = 0
            => loc.statusIngress = bastionStatus)
    /\ [](pc = "done" /\ outcome.kind = "error" /\ patched > 0
            => /\ patched = 1
               /\ outcome.cause = "patch failed")

\* A pass that followed an earlier pass published the public endpoint.
C15_Witness ==
    /\ pc = "done"
    /\ outcome = Success
    /\ patched = 1
    /\ passNo > 1
    /\ bastionStatus.IP = PublicIpAddress

\* The security groups and instances the provider holds under the bastion's
\* names, and the instances of that name it has released.
BastionGroups ==
    SelectSeq(secGroups, LAMBDA g : g.SecurityGroupName = SecurityGroupName)

BastionInstances ==
    SelectSeq(instances, LAMBDA i : i.InstanceName = BastionInstanceName)

ReleasedInstances == (nextId - 1) - Len(BastionGroups) - Len(BastionInstances)

\* C16: over all passes, a security group or an instance of the bastion's
\* name is created only when the provider holds none of that name; so at
\* most one CreateSecurityGroups call succeeds in total and, as long as the
\* provider has released no instance (its lookup returns every instance
\* created), at most one CreateInstances call.
C16_CreatedAtMostOnce ==
    /\ [][Len(BastionGroups') > Len(BastionGroups)
            => Len(BastionGroups) = 0 /\ pc = "CreateSecurityGroups"]_vars
    /\ [][Len(BastionInstances') > Len(BastionInstances)
            => Len(BastionInstances) = 0 /\ pc = "CreateInstances"]_vars
    /\ [](Len(BastionGroups) <= 1)
    /\ [](ReleasedInstances = 0 => Len(BastionInstances) <= 1)
    /\ [](CountCalls("CreateSecurityGroups") <= 1
            /\ CountCalls("CreateInstances") <= 1)

\* The third pass returned without creating anything, the group and the
\* instance of an earlier pass being the only ones ever created.
C16_Witness ==
    /\ passNo = 3
    /\ pc = "done"
    /\ NoCreateThisPass
    /\ outcome.kind \in {"requeue", "success"}
    /\ Len(BastionGroups) = 1
    /\ Len(BastionInstances) = 1
    /\ nextId = 3

\* The rules the provider holds for the bastion security group are set-equal
\* to the wanted ingress and egress rules.
RulesConverged ==
    /\ Len(BastionGroups) = 1
    /\ LET sg == BastionGroups[1].SecurityGroupId
       IN /\ RulesSetEqual("ingress", HeldRules(sg, "ingress"),
                           wantedIngressRules(sg))
          /\ RulesSetEqual("egress", HeldRules(sg, "egress"),
                           wantedEgressRules(PrivateIpAddress, sg,
                                             ShootSecurityGroupId))

\* The running pass has nothing to add or delete and has made no create or
\* revoke call.
NoRuleChange ==
    /\ loc.rulesToAdd = << >>
    /\ loc.rulesToDelete = << >>
    /\ \A i \in DOMAIN calls : calls[i].op \notin RuleChangeOps

\* C17: once the provider's calls have stopped failing, whatever rules the
\* earlier passes left behind (a rule step aborted by a failing create or
\* revoke after some rules were applied), the repeated passes eventually
\* bring the held ingress and egress rules to be set-equal to the wanted
\* ones, and from then on every pass computes empty toAdd and toDelete and
\* makes no create or revoke call.
C17_RulesSelfHeal == <>[](RulesConverged /\ NoRuleChange)

\* A pass was aborted by a failing rule call after it had applied another
\* rule call, and the held rules are not the wanted ones.
C17_Witness ==
    /\ pc = "done"
    /\ outcome.kind = "error"
    /\ Len(calls) > 1
    /\ Last(calls).op \in RuleChangeOps
    /\ Last(calls).res = "err"
    /\ calls[Len(calls) - 1].op \in RuleChangeOps
    /\ ~RulesConverged

\* The pass went on after the probes (it did not end in the probing step).
ResolvedInstanceType == Last(calls).op # "GetInstanceType" \/ pc # "done"

\* Probe k showed an entry of status Available.
ProbeAvailable(k) == Probes[k].seen = "Available"

ProbesAscending ==
    /\ Len(Probes) <= MaxCores
    /\ \A k \in DOMAIN Probes :
          /\ Probes[k].arg = k
          /\ k < Len(Probes) => Probes[k].seen \in {"nil", "empty", "SoldOut"}
          /\ (k = Len(Probes) /\ k < MaxCores
                /\ Probes[k].seen \in {"nil", "empty", "SoldOut"})
               => pc = "GetInstanceType" /\ loc.cores = k + 1
          /\ (k = Len(Probes) /\ Probes[k].seen \in {"Available", "err"})
               => pc # "GetInstanceType"

Published ==
    /\ pc = "done"
    /\ outcome = Success
    /\ patched = 1
    /\ bastionStatus = addressToIngress(NilString, StringPtr(PublicIpAddress))

\* C19: under an outer loop that invokes the pass again after every return,
\* with passes that never overlap, provider calls that stop failing after
\* the first passes, and a bastion instance that becomes and stays Running
\* with a private IP and an allocated public IP, some pass eventually
\* publishes the public endpoint on the bastion status and returns success,
\* whatever the earlier passes left behind.
C19_EventuallyPublished == <>Published

\* A pass that found the security group, the instance and the first of the
\* two egress rules of an aborted earlier pass, created the remaining rule
\* and published the endpoint.
C19_Witness ==
    /\ Published
    /\ passNo > 1
    /\ edits = 0
    /\ NoCreateThisPass
    /\ CountCalls("CreateIngressRule") = 0
    /\ CountCalls("CreateEgressRule") = 1
    /\ CountCalls("RevokeEgressRule") = 0

====
